---- MODULE Spec2Model ----
(***************************************************************************)
(* Model of the Ink weekly-insight pipeline.                               *)
(*                                                                         *)
(*   - the OpenAI adapter (src/unnamed/part_000): extractJson,             *)
(*     parseOpenAIInsights, callOpenAIInsightsRaw, callOpenAIInsights and  *)
(*     the error classification of the catch block;                        *)
(*   - the Insights component (src/unnamed/part_001): the two entry        *)
(*     windows, getMoodTrend and extractThemes.                            *)
(*                                                                         *)
(* Texts are TLA+ strings handled character by character, JSON values are  *)
(* tagged records, so that JSON.parse / JSON.stringify are computed and    *)
(* not assumed.                                                            *)
(***************************************************************************)
EXTENDS Integers, Sequences, FiniteSets, TLC

----------------------------------------------------------------------------
(* Characters and strings *)

Ch(s, i) == SubSeq(s, i, i)

DropFirst(s, n) == SubSeq(s, n + 1, Len(s))

StartsWithAt(s, i, p) == /\ i + Len(p) - 1 <= Len(s)
                         /\ SubSeq(s, i, i + Len(p) - 1) = p

\* the characters String.prototype.trim and the regex class \s remove,
\* restricted to the ones JSON also treats as whitespace
IsWs(c) == c \in {" ", "\n", "\t", "\r"}

RECURSIVE SkipWs(_, _)
SkipWs(s, i) == IF i <= Len(s) /\ IsWs(Ch(s, i)) THEN SkipWs(s, i + 1) ELSE i

RECURSIVE SkipWsBack(_, _)
SkipWsBack(s, i) == IF i >= 1 /\ IsWs(Ch(s, i)) THEN SkipWsBack(s, i - 1) ELSE i

\* String.prototype.trim
Trim(s) == SubSeq(s, SkipWs(s, 1), SkipWsBack(s, Len(s)))

Contains(s, p) == \E i \in 1..(Len(s) - Len(p) + 1) : StartsWithAt(s, i, p)

UpperChars == "ABCDEFGHIJKLMNOPQRSTUVWXYZ"
LowerChars == "abcdefghijklmnopqrstuvwxyz"

LowerChar(c) ==
    IF \E k \in 1..26 : Ch(UpperChars, k) = c
    THEN Ch(LowerChars, CHOOSE k \in 1..26 : Ch(UpperChars, k) = c)
    ELSE c

\* String.prototype.toLowerCase
RECURSIVE ToLowerCase(_)
ToLowerCase(s) ==
    IF s = "" THEN "" ELSE LowerChar(Ch(s, 1)) \o ToLowerCase(DropFirst(s, 1))

DigitChars == "0123456789"

IsDigit(c) == \E k \in 1..10 : Ch(DigitChars, k) = c

DigitVal(c) == (CHOOSE k \in 1..10 : Ch(DigitChars, k) = c) - 1

RECURSIVE NatToStr(_)
NatToStr(n) ==
    IF n < 10 THEN Ch(DigitChars, n + 1)
    ELSE NatToStr(n \div 10) \o Ch(DigitChars, (n % 10) + 1)

RECURSIVE Pow10(_)
Pow10(d) == IF d = 0 THEN 1 ELSE 10 * Pow10(d - 1)

----------------------------------------------------------------------------
(* JavaScript values.  Every value is a record tagged by t; the payload    *)
(* field is named after the type so that values of different types are     *)
(* records over different fields.                                          *)
(*   undefined, null, boolean b, number n / 10^d, string s, array a,       *)
(*   object o (a sequence of [k, v] members in insertion order)            *)

Undefined == [t |-> "undefined"]
Null      == [t |-> "null"]
Bool(b)   == [t |-> "boolean", b |-> b]
Str(s)    == [t |-> "string", s |-> s]
Arr(a)    == [t |-> "array", a |-> a]
Obj(o)    == [t |-> "object", o |-> o]

\* the number n / 10^d, normalised: no trailing zero in the fraction
RECURSIVE Num(_, _)
Num(n, d) == IF d > 0 /\ n % 10 = 0 THEN Num(n \div 10, d - 1)
             ELSE [t |-> "number", n |-> n, d |-> d]

\* ToBoolean: undefined, null, false, 0 and '' are falsy
Truthy(v) ==
    CASE v.t = "undefined" -> FALSE
      [] v.t = "null"      -> FALSE
      [] v.t = "boolean"   -> v.b
      [] v.t = "number"    -> v.n # 0
      [] v.t = "string"    -> v.s # ""
      [] OTHER             -> TRUE

HasKey(o, k) == \E i \in 1..Len(o) : o[i].k = k

\* defining a property: a repeated key keeps its place and takes the new value
Put(o, k, v) ==
    IF HasKey(o, k)
    THEN [i \in 1..Len(o) |-> IF o[i].k = k THEN [k |-> k, v |-> v] ELSE o[i]]
    ELSE Append(o, [k |-> k, v |-> v])

\* parsed?.k : undefined on undefined/null and on values without that
\* own property
Get(v, k) ==
    IF v.t = "object" /\ HasKey(v.o, k)
    THEN v.o[CHOOSE i \in 1..Len(v.o) : v.o[i].k = k].v
    ELSE Undefined

\* Number.prototype.toString for n / 10^d
NumToStr(n, d) ==
    LET m    == IF n < 0 THEN -n ELSE n
        ip   == m \div Pow10(d)
        fp   == m % Pow10(d)
        fs   == NatToStr(fp)
        RECURSIVE Zeros(_)
        Zeros(k) == IF k <= 0 THEN "" ELSE "0" \o Zeros(k - 1)
    IN  (IF n < 0 THEN "-" ELSE "") \o NatToStr(ip) \o
        (IF d = 0 THEN "" ELSE "." \o Zeros(d - Len(fs)) \o fs)

----------------------------------------------------------------------------
(* JSON.stringify *)

\* a string literal: quote, backslash and the control characters escaped
RECURSIVE Escape(_)
Escape(s) ==
    IF s = "" THEN ""
    ELSE LET c == Ch(s, 1)
             e == CASE c = "\"" -> "\\\""
                    [] c = "\\" -> "\\\\"
                    [] c = "\n" -> "\\n"
                    [] c = "\t" -> "\\t"
                    [] c = "\r" -> "\\r"
                    [] OTHER    -> c
         IN  e \o Escape(DropFirst(s, 1))

Quote(s) == "\"" \o Escape(s) \o "\""

RECURSIVE Stringify(_)
Stringify(v) ==
    LET RECURSIVE Elems(_, _)
        Elems(a, i) ==
            IF i > Len(a) THEN ""
            ELSE (IF i > 1 THEN "," ELSE "") \o
                 \* undefined inside an array is written as null
                 (IF a[i].t = "undefined" THEN "null" ELSE Stringify(a[i])) \o
                 Elems(a, i + 1)
        RECURSIVE Members(_, _, _)
        Members(o, i, first) ==
            IF i > Len(o) THEN ""
            ELSE IF o[i].v.t = "undefined"
                 \* a member whose value is undefined is left out
                 THEN Members(o, i + 1, first)
                 ELSE (IF first THEN "" ELSE ",") \o
                      Quote(o[i].k) \o ":" \o Stringify(o[i].v) \o
                      Members(o, i + 1, FALSE)
    IN  CASE v.t = "null"    -> "null"
          [] v.t = "boolean" -> IF v.b THEN "true" ELSE "false"
          [] v.t = "number"  -> NumToStr(v.n, v.d)
          [] v.t = "string"  -> Quote(v.s)
          [] v.t = "array"   -> "[" \o Elems(v.a, 1) \o "]"
          [] v.t = "object"  -> "{" \o Members(v.o, 1, TRUE) \o "}"

----------------------------------------------------------------------------
(* JSON.parse.  Every parser takes the text and a position and yields      *)
(* [ok |-> TRUE, v |-> value, i |-> next position] or                      *)
(* [ok |-> FALSE, i |-> position of the offending character].              *)

Fail(i) == [ok |-> FALSE, i |-> i]
Done(v, i) == [ok |-> TRUE, v |-> v, i |-> i]

\* the character an escape sequence stands for; the empty sequence when the
\* escape is not one of \" \\ \/ \n \t \r
Unescape(e) ==
    CASE e = "\"" -> <<"\"">>
      [] e = "\\" -> <<"\\">>
      [] e = "/"  -> <<"/">>
      [] e = "n"  -> <<"\n">>
      [] e = "t"  -> <<"\t">>
      [] e = "r"  -> <<"\r">>
      [] OTHER    -> <<>>

\* the characters of a string literal, from the one after the opening quote
RECURSIVE ParseChars(_, _, _)

CharsEscape(s, i, acc, u) ==
    IF u = <<>> THEN Fail(i + 1) ELSE ParseChars(s, i + 2, acc \o u[1])

CharsNext(s, i, acc, c) ==
    CASE c = "\"" -> Done(acc, i + 1)
      [] c = "\\" -> IF i + 1 > Len(s) THEN Fail(i + 1)
                     ELSE CharsEscape(s, i, acc, Unescape(Ch(s, i + 1)))
      \* a raw control character is not allowed inside a literal
      [] c \in {"\n", "\t", "\r"} -> Fail(i)
      [] OTHER -> ParseChars(s, i + 1, acc \o c)

ParseChars(s, i, acc) ==
    IF i > Len(s) THEN Fail(i) ELSE CharsNext(s, i, acc, Ch(s, i))

\* a run of digits from position i: the number read so far, the count of
\* digits read, the position after them
RECURSIVE ParseDigits(_, _, _, _)
ParseDigits(s, i, n, k) ==
    IF i <= Len(s) /\ IsDigit(Ch(s, i))
    THEN ParseDigits(s, i + 1, 10 * n + DigitVal(Ch(s, i)), k + 1)
    ELSE [n |-> n, k |-> k, i |-> i]

\* -? (0 | [1-9][0-9]*) (. [0-9]+)?
NumberEnd(sg, at, fr) ==
    IF fr.k = 0 THEN Fail(at) ELSE Done(Num(sg * fr.n, fr.k), fr.i)

NumberFrac(s, j, sg, ip) ==
    IF ip.k = 0 THEN Fail(j)
    ELSE IF ip.i <= Len(s) /\ Ch(s, ip.i) = "."
         THEN NumberEnd(sg, ip.i + 1, ParseDigits(s, ip.i + 1, ip.n, 0))
         ELSE Done(Num(sg * ip.n, 0), ip.i)

NumberFrom(s, j, sg) ==
    NumberFrac(s, j, sg,
               IF j <= Len(s) /\ Ch(s, j) = "0"
               THEN [n |-> 0, k |-> 1, i |-> j + 1]
               ELSE ParseDigits(s, j, 0, 0))

ParseNumber(s, i) ==
    NumberFrom(s, IF Ch(s, i) = "-" THEN i + 1 ELSE i,
                  IF Ch(s, i) = "-" THEN -1 ELSE 1)

RECURSIVE ParseValue(_, _)
RECURSIVE ParseElems(_, _, _)
RECURSIVE ParseMembers(_, _, _)

\* after an element: a comma and the next element, or the closing bracket
ElemsNext(s, acc, j) ==
    IF j > Len(s) THEN Fail(j)
    ELSE IF Ch(s, j) = "," THEN ParseElems(s, j + 1, acc)
    ELSE IF Ch(s, j) = "]" THEN Done(Arr(acc), j + 1)
    ELSE Fail(j)

ElemsAfter(s, acc, r) ==
    IF ~r.ok THEN r ELSE ElemsNext(s, Append(acc, r.v), SkipWs(s, r.i))

\* the elements of an array, from the position of an element
ParseElems(s, i, acc) == ElemsAfter(s, acc, ParseValue(s, i))

\* after a member: a comma and the next member, or the closing brace
MemberNext(s, acc, j) ==
    IF j > Len(s) THEN Fail(j)
    ELSE IF Ch(s, j) = "," THEN ParseMembers(s, j + 1, acc)
    ELSE IF Ch(s, j) = "}" THEN Done(Obj(acc), j + 1)
    ELSE Fail(j)

MemberAfter(s, acc, key, r) ==
    IF ~r.ok THEN r ELSE MemberNext(s, Put(acc, key, r.v), SkipWs(s, r.i))

MemberValue(s, acc, key, ci) ==
    IF ci > Len(s) \/ Ch(s, ci) # ":" THEN Fail(ci)
    ELSE MemberAfter(s, acc, key, ParseValue(s, ci + 1))

MemberColon(s, acc, k) ==
    IF ~k.ok THEN k ELSE MemberValue(s, acc, k.v, SkipWs(s, k.i))

MemberKey(s, acc, ki) ==
    IF ki > Len(s) \/ Ch(s, ki) # "\"" THEN Fail(ki)
    ELSE MemberColon(s, acc, ParseChars(s, ki + 1, ""))

\* the members of an object, from the position of a key
ParseMembers(s, i, acc) == MemberKey(s, acc, SkipWs(s, i))

StringAt(str) == IF str.ok THEN Done(Str(str.v), str.i) ELSE str

\* n is the position of the first non-blank character after the bracket
ArrayAt(s, n) ==
    IF n <= Len(s) /\ Ch(s, n) = "]" THEN Done(Arr(<<>>), n + 1)
    ELSE ParseElems(s, n, <<>>)

ObjectAt(s, n) ==
    IF n <= Len(s) /\ Ch(s, n) = "}" THEN Done(Obj(<<>>), n + 1)
    ELSE ParseMembers(s, n, <<>>)

ValueOf(s, i, c) ==
    CASE c = "{"  -> ObjectAt(s, SkipWs(s, i + 1))
      [] c = "["  -> ArrayAt(s, SkipWs(s, i + 1))
      [] c = "\"" -> StringAt(ParseChars(s, i + 1, ""))
      [] c = "-" \/ IsDigit(c) -> ParseNumber(s, i)
      [] StartsWithAt(s, i, "true")  -> Done(Bool(TRUE), i + 4)
      [] StartsWithAt(s, i, "false") -> Done(Bool(FALSE), i + 5)
      [] StartsWithAt(s, i, "null")  -> Done(Null, i + 4)
      [] OTHER -> Fail(i)

ValueAt(s, i) == IF i > Len(s) THEN Fail(i) ELSE ValueOf(s, i, Ch(s, i))

ParseValue(s, i) == ValueAt(s, SkipWs(s, i))

\* the message of the SyntaxError JSON.parse throws
SyntaxMessage(s, i) ==
    IF i > Len(s) THEN "Unexpected end of JSON input"
    ELSE "Unexpected token " \o Ch(s, i) \o " in JSON at position " \o NatToStr(i - 1)

\* nothing but whitespace may follow the value
ParseTail(s, v, j) ==
    IF j <= Len(s) THEN [ok |-> FALSE, message |-> SyntaxMessage(s, j)]
    ELSE [ok |-> TRUE, v |-> v]

ParseEnd(s, r) ==
    IF ~r.ok THEN [ok |-> FALSE, message |-> SyntaxMessage(s, r.i)]
    ELSE ParseTail(s, r.v, SkipWs(s, r.i))

\* JSON.parse: [ok |-> TRUE, v |-> value] or [ok |-> FALSE, message |-> ...]
JSONParse(s) == ParseEnd(s, ParseValue(s, 1))

----------------------------------------------------------------------------
(* Errors.  An error object is a record of the properties the adapter      *)
(* reads or sets; an optional property is a sequence of length 0 or 1, a   *)
(* missing name, code or message is the empty string.                      *)

MkError(name, message, status, code) ==
    [name |-> name, message |-> message, status |-> status, code |-> code,
     rawText |-> <<>>, parseError |-> <<>>]

\* new OpenAIParseError(message, rawText, parseError)
OpenAIParseError(message, rawText, parseError) ==
    [name |-> "OpenAIParseError", message |-> message, status |-> <<>>,
     code |-> "", rawText |-> <<rawText>>, parseError |-> <<parseError>>]

Return(v) == [ok |-> TRUE, v |-> v]
Throw(e)  == [ok |-> FALSE, err |-> e]

----------------------------------------------------------------------------
(* extractJson and parseOpenAIInsights *)

\* A TLA+ string cannot hold the backquote character: in every text of
\* this model the character ~ stands for it, so Fence is the three
\* backquotes of a fenced code block.
Fence == "~~~"

\* .replace(/^<fence>(?:json)?\s*\n?/, '')
StripFenceStart(s) ==
    IF StartsWithAt(s, 1, Fence)
    THEN LET j == IF StartsWithAt(s, 4, "json") THEN 8 ELSE 4
         IN  DropFirst(s, SkipWs(s, j) - 1)
    ELSE s

\* .replace(/\n?<fence>\s*$/, '')
StripFenceEnd(s) ==
    LET e == SkipWsBack(s, Len(s))
        b == e - 2
    IN  IF b >= 1 /\ SubSeq(s, b, e) = Fence
        THEN IF b >= 2 /\ Ch(s, b - 1) = "\n" THEN SubSeq(s, 1, b - 2)
             ELSE SubSeq(s, 1, b - 1)
        ELSE s

CleanText(text) == Trim(StripFenceEnd(StripFenceStart(Trim(text))))

\* clean.match(/\{[\s\S]*\}/): from the first { to the last } after it;
\* the empty sequence when there is no match
BraceMatch(clean) ==
    LET opens  == {i \in 1..Len(clean) : Ch(clean, i) = "{"}
        first  == CHOOSE i \in opens : \A j \in opens : i <= j
        closes == {i \in 1..Len(clean) : Ch(clean, i) = "}" /\ i > first}
        last   == CHOOSE i \in closes : \A j \in closes : j <= i
    IN  IF opens = {} THEN <<>>
        ELSE IF closes = {} THEN <<>>
        ELSE <<SubSeq(clean, first, last)>>

\* the second attempt, on the brace-delimited span
ExtractSecond(text, second) ==
    IF second.ok THEN Return(second.v)
    ELSE Throw(OpenAIParseError("Failed to parse JSON from response", text,
                                second.message))

\* the catch of the direct attempt, reporting the cleaned text instead of
\* the text extractJson was given
ExtractMatchCleanRaw(text, clean, directMessage, match) ==
    IF match = <<>>
    THEN Throw(OpenAIParseError("No JSON found in response", clean,
                                directMessage))
    ELSE ExtractSecond(clean, JSONParse(match[1]))

\* the catch of the direct attempt
ExtractMatch(text, clean, directMessage, match) ==
    IF match = <<>>
    THEN Throw(OpenAIParseError("No JSON found in response", text,
                                directMessage))
    ELSE ExtractSecond(text, JSONParse(match[1]))

\* the direct attempt, on the cleaned text
ExtractDirect(text, clean, direct) ==
    IF direct.ok THEN Return(direct.v)
    ELSE ExtractMatch(text, clean, direct.message, BraceMatch(clean))

ExtractClean(text, clean) == ExtractDirect(text, clean, JSONParse(clean))

extractJson(text) == ExtractClean(text, CleanText(text))

\* a || b
OrElse(a, b) == IF Truthy(a) THEN a ELSE b

\* String(v)
RECURSIVE StringOf(_)
StringOf(v) ==
    LET RECURSIVE Join(_, _)
        Join(a, i) ==
            IF i > Len(a) THEN ""
            ELSE (IF i > 1 THEN "," ELSE "") \o
                 (IF a[i].t \in {"undefined", "null"} THEN ""
                  ELSE StringOf(a[i])) \o
                 Join(a, i + 1)
    IN  CASE v.t = "undefined" -> "undefined"
          [] v.t = "null"      -> "null"
          [] v.t = "boolean"   -> IF v.b THEN "true" ELSE "false"
          [] v.t = "number"    -> NumToStr(v.n, v.d)
          [] v.t = "string"    -> v.s
          [] v.t = "array"     -> Join(v.a, 1)
          [] v.t = "object"    -> "[object Object]"

DefaultConfidence == Num(5, 1)

\* the object literal with the lists defaulted by || instead of Array.isArray
BuildInsightsListsOrEmpty(parsed) ==
    [howYouFelt    |-> Str(Trim(StringOf(OrElse(Get(parsed, "howYouFelt"), Str(""))))),
     weeklySummary |-> OrElse(Get(parsed, "weeklySummary"), Str("")),
     moodDrivers   |-> OrElse(Get(parsed, "moodDrivers"), Arr(<<>>)),
     patterns      |-> OrElse(Get(parsed, "patterns"), Arr(<<>>)),
     suggestions   |-> OrElse(Get(parsed, "suggestions"), Arr(<<>>)),
     confidence    |-> IF Get(parsed, "confidence").t = "number"
                       THEN Get(parsed, "confidence") ELSE DefaultConfidence]

\* the object literal with the confidence defaulted by || instead of typeof
BuildInsightsConfidenceOr(parsed) ==
    [howYouFelt    |-> Str(Trim(StringOf(OrElse(Get(parsed, "howYouFelt"), Str(""))))),
     weeklySummary |-> OrElse(Get(parsed, "weeklySummary"), Str("")),
     moodDrivers   |-> IF Get(parsed, "moodDrivers").t = "array"
                       THEN Get(parsed, "moodDrivers") ELSE Arr(<<>>),
     patterns      |-> IF Get(parsed, "patterns").t = "array"
                       THEN Get(parsed, "patterns") ELSE Arr(<<>>),
     suggestions   |-> IF Get(parsed, "suggestions").t = "array"
                       THEN Get(parsed, "suggestions") ELSE Arr(<<>>),
     confidence    |-> OrElse(Get(parsed, "confidence"), DefaultConfidence)]

\* the object literal parseOpenAIInsights returns
BuildInsights(parsed) ==
    [howYouFelt    |-> Str(Trim(StringOf(OrElse(Get(parsed, "howYouFelt"), Str(""))))),
     weeklySummary |-> OrElse(Get(parsed, "weeklySummary"), Str("")),
     moodDrivers   |-> IF Get(parsed, "moodDrivers").t = "array"
                       THEN Get(parsed, "moodDrivers") ELSE Arr(<<>>),
     patterns      |-> IF Get(parsed, "patterns").t = "array"
                       THEN Get(parsed, "patterns") ELSE Arr(<<>>),
     suggestions   |-> IF Get(parsed, "suggestions").t = "array"
                       THEN Get(parsed, "suggestions") ELSE Arr(<<>>),
     confidence    |-> IF Get(parsed, "confidence").t = "number"
                       THEN Get(parsed, "confidence") ELSE DefaultConfidence]

InsightsFrom(parsed) ==
    IF parsed.ok THEN Return(BuildInsights(parsed.v)) ELSE parsed

parseOpenAIInsights(text) == InsightsFrom(extractJson(text))

----------------------------------------------------------------------------
(* callOpenAIInsightsRaw and callOpenAIInsights *)

ConfigMessage == "OPENAI_API_KEY is required"

\* new Error('OPENAI_API_KEY is required')
ConfigError == MkError("Error", ConfigMessage, <<>>, "")

\* the credential check testing for undefined only
KeyMissingUndefinedOnly(key) == key.t = "undefined"

\* if (!apiKey)
KeyMissing(key) == ~Truthy(key)

NetworkCodes == {"ENOTFOUND", "ECONNREFUSED", "ECONNRESET", "ETIMEDOUT"}

RateLimitStatus == 429

\* the catch block with the connection check placed before the rate-limit check
ClassifyNetworkFirst(err) ==
    LET status == err.status
        code   == err.code
        name   == IF err.name # "" THEN err.name ELSE "OpenAIError"
    IN  IF name = "APIConnectionError" \/ code \in NetworkCodes
        THEN MkError("OpenAINetworkError",
                     IF err.message # "" THEN err.message ELSE "Network error",
                     status, "")
        ELSE IF status = <<RateLimitStatus>> \/ code = "rate_limit_exceeded"
        THEN MkError("OpenAIRateLimitError", "OpenAI rate limit",
                     <<RateLimitStatus>>, "")
        ELSE err

\* the catch block: what is thrown to the caller for a caught err
Classify(err) ==
    LET status == err.status
        code   == err.code
        name   == IF err.name # "" THEN err.name ELSE "OpenAIError"
    IN  IF status = <<RateLimitStatus>> \/ code = "rate_limit_exceeded"
        THEN MkError("OpenAIRateLimitError", "OpenAI rate limit",
                     <<RateLimitStatus>>, "")
        ELSE IF name = "APIConnectionError" \/ code \in NetworkCodes
        THEN MkError("OpenAINetworkError",
                     IF err.message # "" THEN err.message ELSE "Network error",
                     status, "")
        ELSE IF err.name = "OpenAIParseError" THEN err
        ELSE err

\* (response as any)?.output_parsed ?? null
OutputParsed(resp) ==
    IF resp.output_parsed.t \in {"undefined", "null"} THEN Null
    ELSE resp.output_parsed

\* (response as any)?.output_text?.trim() || ''
OutputText(resp) ==
    IF resp.output_text.t = "string" THEN Trim(resp.output_text.s) ELSE ""

\* the end of the try block: the text went through extractJson
ParsedText(outputText, parsed) ==
    IF parsed.ok THEN Return([rawText |-> outputText, parsed |-> parsed.v])
    ELSE parsed

\* the try block preferring the raw text to the pre-parsed payload
HandleOutputsPreferText(outputParsed, outputText) ==
    IF ~Truthy(outputParsed) /\ outputText = ""
    THEN Throw(OpenAIParseError("Empty OpenAI response text", "",
                                "empty_output_text"))
    ELSE IF outputText # ""
    THEN ParsedText(outputText, extractJson(outputText))
    ELSE Return([rawText |-> Stringify(outputParsed),
                 parsed  |-> outputParsed])

\* the body of the try block after the awaited request has resolved
HandleOutputs(outputParsed, outputText) ==
    IF ~Truthy(outputParsed) /\ outputText = ""
    THEN Throw(OpenAIParseError("Empty OpenAI response text", "",
                                "empty_output_text"))
    ELSE IF Truthy(outputParsed)
    THEN Return([rawText |-> IF outputText # "" THEN outputText
                             ELSE Stringify(outputParsed),
                 parsed  |-> outputParsed])
    ELSE ParsedText(outputText, extractJson(outputText))

HandleResponse(resp) == HandleOutputs(OutputParsed(resp), OutputText(resp))

\* what callOpenAIInsights makes of the value callOpenAIInsightsRaw returned
InsightsOf(raw) == parseOpenAIInsights(Stringify(raw.parsed))

----------------------------------------------------------------------------
(* State *)

VARIABLES
    pc,          \* position of the invocation: "idle", "awaiting", "done"
    op,          \* the entry point invoked
    apiKey,      \* the credential argument of the adapter call
    text,        \* the argument of parseOpenAIInsights
    requests,    \* calls of client.responses.create made by the invocation
    response,    \* how the awaited request settled
    caught,      \* err of the catch block, when it was entered
    outcome,     \* what the invocation returned or threw to its caller
    doc,         \* the value a text was serialized from, when it was
    entries,     \* the entries prop of the Insights component
    now,         \* the instant new Date() yields while it renders, in hours
    trend,       \* what getMoodTrend returned, with the mood it was asked
    themeCounts, \* themeCounts of extractThemes, in insertion order
    themes,      \* what extractThemes returned
    windows,     \* weekEntries and prevWeekEntries
    moodCounts,  \* moodCounts, in insertion order
    dominantMood \* dominantMood

adapterVars == <<pc, op, apiKey, text, requests, response, caught, outcome, doc>>

insightsVars == <<entries, now, trend, themeCounts, themes, windows,
                  moodCounts, dominantMood>>

vars == <<adapterVars, insightsVars>>

None == [kind |-> "none"]

Member(k, v) == [k |-> k, v |-> v]

\* the credentials a caller passes: none, the empty string, a key
ApiKeys == {Undefined, Str(""), Str("sk-test")}

\* pre-parsed payloads a response carries in output_parsed
FullPayload ==
    Obj(<<Member("howYouFelt", Str("Calm week.")),
          Member("weeklySummary", Str("Steady.")),
          Member("moodDrivers", Arr(<<Str("rest")>>)),
          Member("patterns", Arr(<<>>)),
          Member("suggestions", Arr(<<Str("walk"), Str("sleep")>>)),
          Member("confidence", Num(8, 1))>>)

PaddedPayload ==
    Obj(<<Member("howYouFelt", Str(" Based on a small number of recent entries ")),
          Member("weeklySummary", Str("")),
          Member("moodDrivers", Arr(<<>>)),
          Member("patterns", Arr(<<>>)),
          Member("suggestions", Arr(<<>>)),
          Member("confidence", Num(0, 0))>>)

\* a payload that breaks the request's schema
OffSchemaPayload ==
    Obj(<<Member("howYouFelt", Str("Mixed.")),
          Member("moodDrivers", Str("rest")),
          Member("confidence", Num(15, 1))>>)

OutputParsedValues ==
    {Undefined, Null, Bool(FALSE), Num(0, 0), Obj(<<>>),
     FullPayload, PaddedPayload, OffSchemaPayload}

OutputTextValues ==
    {Undefined, Str(""), Str(" \n "),
     Str(Stringify(FullPayload)),
     Str(Fence \o "json\n" \o Stringify(OffSchemaPayload) \o "\n" \o Fence),
     Str("Sure! {\"howYouFelt\": \"Tired\", \"confidence\": 0.4} Hope it helps."),
     Str("I could not produce insights."),
     Str("{\"howYouFelt\": \"Cut o")}

Responses ==
    [output_parsed : OutputParsedValues, output_text : OutputTextValues]

\* errors the awaited request rejects with
ErrorNames == {"", "Error", "APIConnectionError", "RateLimitError"}
ErrorCodes == {"", "rate_limit_exceeded", "server_error"} \cup NetworkCodes
ErrorStatuses == {<<>>, <<RateLimitStatus>>, <<500>>}
ErrorMessages == {"", "boom"}

ProviderErrors ==
    {MkError(n, m, st, c) : n \in ErrorNames, m \in ErrorMessages,
                            st \in ErrorStatuses, c \in ErrorCodes}

----------------------------------------------------------------------------
(* The adapter call *)

\* the Insights component has nothing to render
NoInsights ==
    /\ entries = <<>>
    /\ now = 0
    /\ trend = None
    /\ themeCounts = <<>>
    /\ themes = <<>>
    /\ windows = None
    /\ moodCounts = <<>>
    /\ dominantMood = None

Init ==
    /\ NoInsights
    /\ pc = "idle"
    /\ op = "none"
    /\ apiKey = Undefined
    /\ text = ""
    /\ requests = 0
    /\ response = None
    /\ caught = <<>>
    /\ outcome = None
    /\ doc = <<>>

\* callOpenAIInsights / callOpenAIInsightsRaw up to the awaited request
Invoke(o, key) ==
    /\ pc = "idle"
    /\ op' = o
    /\ apiKey' = key
    /\ IF KeyMissing(key)
       THEN /\ outcome' = [kind |-> "thrown", err |-> ConfigError]
            /\ requests' = requests
            /\ pc' = "done"
       ELSE /\ requests' = requests + 1
            /\ outcome' = outcome
            /\ pc' = "awaiting"
    /\ UNCHANGED <<text, response, caught, doc, insightsVars>>

\* callOpenAIInsights returning or throwing what parseOpenAIInsights did
InsightsOutcome(ins) ==
    IF ins.ok THEN [kind |-> "returned", v |-> ins.v]
    ELSE [kind |-> "thrown", err |-> ins.err]

\* what the caller of the adapter receives once the request has settled
Settle(o, r) ==
    IF ~r.ok THEN [kind |-> "thrown", err |-> Classify(r.err)]
    ELSE IF o = "callOpenAIInsightsRaw" THEN [kind |-> "returned", v |-> r.v]
    ELSE InsightsOutcome(InsightsOf(r.v))

\* the request resolves with a response
ProviderResolve(resp) ==
    /\ pc = "awaiting"
    /\ response' = [kind |-> "resolved", resp |-> resp]
    /\ \E r \in {HandleResponse(resp)} :
           /\ caught' = IF r.ok THEN <<>> ELSE <<r.err>>
           /\ outcome' = Settle(op, r)
    /\ pc' = "done"
    /\ UNCHANGED <<op, apiKey, text, requests, doc, insightsVars>>

\* the rejection handled with one retry of a rate-limited request
ProviderRejectRetry(err) ==
    /\ pc = "awaiting"
    /\ response' = [kind |-> "rejected", err |-> err]
    /\ caught' = <<err>>
    /\ IF err.status = <<RateLimitStatus>> /\ requests < 2
       THEN /\ requests' = requests + 1
            /\ UNCHANGED <<pc, outcome>>
       ELSE /\ outcome' = Settle(op, Throw(err))
            /\ pc' = "done"
            /\ UNCHANGED requests
    /\ UNCHANGED <<op, apiKey, text, doc, insightsVars>>

\* the request rejects with an error
ProviderReject(err) ==
    /\ pc = "awaiting"
    /\ response' = [kind |-> "rejected", err |-> err]
    /\ caught' = <<err>>
    /\ outcome' = Settle(op, Throw(err))
    /\ pc' = "done"
    /\ UNCHANGED <<op, apiKey, text, requests, doc, insightsVars>>

AdapterOps == {"callOpenAIInsightsRaw", "callOpenAIInsights"}

Next ==
    \/ \E o \in AdapterOps, key \in ApiKeys : Invoke(o, key)
    \/ \E resp \in Responses : ProviderResolve(resp)
    \/ \E err \in ProviderErrors : ProviderReject(err)

Spec == Init /\ [][Next]_vars

----------------------------------------------------------------------------
(* parseOpenAIInsights as a function of its text *)

\* the values of each field of an InsightResult-shaped object; Undefined is
\* an absent optional field
HowYouFeltValues ==
    {Str(""), Str("Calm week."), Str(" Based on few entries \n"),
     Str("Said \"rest\" {often}")}
WeeklySummaryValues == {Undefined, Str(""), Str("Steady.")}
MoodDriversValues == {Undefined, Arr(<<>>), Arr(<<Str("rest"), Str("a, b")>>)}
PatternsValues == {Arr(<<>>), Arr(<<Str("late nights")>>)}
SuggestionsValues == {Undefined, Arr(<<Str("walk")>>)}
ConfidenceValues == {Undefined, Num(0, 0), Num(25, 2), Num(1, 0)}

\* the object with the six fields in the order of the interface
InsightObject(h, w, m, p, g, c) ==
    Obj(<<Member("howYouFelt", h), Member("weeklySummary", w),
          Member("moodDrivers", m), Member("patterns", p),
          Member("suggestions", g), Member("confidence", c)>>)

ValidInsights ==
    {InsightObject(h, w, m, p, g, c) :
        h \in HowYouFeltValues, w \in WeeklySummaryValues,
        m \in MoodDriversValues, p \in PatternsValues,
        g \in SuggestionsValues, c \in ConfidenceValues}

\* JSON values that are not InsightResult-shaped
OtherDocs ==
    {Null, Bool(TRUE), Bool(FALSE), Num(42, 0), Num(0, 0), Str("fine"),
     Str(""), Arr(<<>>), Arr(<<FullPayload>>), Obj(<<>>),
     OffSchemaPayload,
     Obj(<<Member("howYouFelt", Num(12, 0))>>),
     Obj(<<Member("howYouFelt", Null), Member("weeklySummary", Num(7, 0))>>),
     Obj(<<Member("howYouFelt", Arr(<<Str(" a"), Null, Num(5, 1)>>)),
           Member("patterns", Obj(<<Member("0", Str("p"))>>))>>),
     Obj(<<Member("howYouFelt", Obj(<<>>)), Member("suggestions", Null),
           Member("confidence", Str("0.9"))>>),
     Obj(<<Member("howYouFelt", Str("Low.")), Member("confidence", Num(-1, 0))>>),
     Obj(<<Member("howYouFelt", Str("High.")), Member("confidence", Num(7, 0))>>),
     Obj(<<Member("howYouFelt", Bool(TRUE)), Member("confidence", Null)>>)}

Docs == ValidInsights \cup OtherDocs

\* the ways a provider wraps a serialized value
Wrappers == {"bare", "fenced json", "fenced", "prose", "padded"}

Wrap(w, t) ==
    CASE w = "bare"        -> t
      [] w = "fenced json" -> Fence \o "json\n" \o t \o "\n" \o Fence
      [] w = "fenced"      -> " " \o Fence \o t \o Fence \o "\n"
      [] w = "prose"       -> "Here you go: " \o t \o " Take care."
      [] w = "padded"      -> "\n  " \o t \o "  "

\* texts that were not serialized from a value
RawTexts ==
    {"", "   ", "I could not produce insights.", "  plain prose, no json\n",
     "42", " 0.5 ", "-3", "\"just a string\"", "true", "null", "[]",
     "[1, 2]", "nul", "01", "1.", "\"open",
     Fence, Fence \o "json\nnot json\n" \o Fence,
     Fence \o "json\n7\n" \o Fence,
     "{", "}", "} {", "{}", "{ }", "{\"howYouFelt\": \"Cut o",
     "{\"howYouFelt\": \"ok\",}", "{howYouFelt: \"ok\"}",
     "{\"a\": 1} and {\"b\": 2}",
     "[{\"howYouFelt\": \"in a list\"}] trailing",
     "{ \"howYouFelt\" : \"spaced\" , \"confidence\" : 0.50 ,\n \"patterns\" : [ \"x\" , \"y\" ] }",
     "{\"confidence\": 0.1, \"confidence\": 0.9}",
     "{\"howYouFelt\": \"line\\nbreak \\\\ \\/ \\t\", \"weeklySummary\": \"a}b{c\"}",
     "{\"howYouFelt\": \"bad \\q escape\"}",
     "note {not json} end"}

InitParse ==
    /\ NoInsights
    /\ pc = "idle"
    /\ op = "parseOpenAIInsights"
    /\ apiKey = Undefined
    /\ requests = 0
    /\ response = None
    /\ caught = <<>>
    /\ outcome = None
    /\ \/ /\ doc = <<>>
          /\ text \in RawTexts
       \/ \E d \in Docs, w \in Wrappers :
             /\ doc = <<[value |-> d, wrapper |-> w]>>
             /\ text = Wrap(w, Stringify(d))

\* parseOpenAIInsights(text)
ParseOpenAIInsights ==
    /\ pc = "idle"
    /\ op = "parseOpenAIInsights"
    /\ outcome' = InsightsOutcome(parseOpenAIInsights(text))
    /\ pc' = "done"
    /\ UNCHANGED <<op, apiKey, text, requests, response, caught, doc, insightsVars>>

NextParse == ParseOpenAIInsights

SpecParse == InitParse /\ [][NextParse]_vars

----------------------------------------------------------------------------
(* The Insights component.  An entry is [date, mood, content]; instants    *)
(* are counted in hours, a mood that is not set is the empty string.       *)

Moods == {"joy", "calm", "sad", "anxious", "stressed", "motivated", "grateful"}

\* weekAgo.setDate(weekAgo.getDate() - 7)
weekAgo(t) == t - 7 * 24

\* twoWeeksAgo.setDate(twoWeeksAgo.getDate() - 14)
twoWeeksAgo(t) == t - 14 * 24

weekEntries(es, t) == SelectSeq(es, LAMBDA e : e.date >= weekAgo(t))

prevWeekEntries(es, t) ==
    SelectSeq(es, LAMBDA e : e.date >= twoWeeksAgo(t) /\ e.date < weekAgo(t))

\* .filter(e => e.mood === mood).length
MoodCount(es, mood) == Len(SelectSeq(es, LAMBDA e : e.mood = mood))

\* Math.round(a / b) for an integer a and b > 0: the nearest integer, a
\* half going up; exact while the counts stay below 40, where the double
\* (a / b) * 100 first differs from the quotient
MathRound(a, b) == (2 * a + b) \div (2 * b)

TrendOfPercent(percentChange) ==
    [change    |-> IF percentChange < 0 THEN -percentChange ELSE percentChange,
     direction |-> IF percentChange > 0 THEN "up"
                   ELSE IF percentChange < 0 THEN "down" ELSE "neutral"]

TrendOfCounts(thisWeekCount, lastWeekCount) ==
    IF lastWeekCount = 0 THEN [change |-> 0, direction |-> "neutral"]
    ELSE TrendOfPercent(MathRound((thisWeekCount - lastWeekCount) * 100,
                                  lastWeekCount))

getMoodTrend(es, t, mood) ==
    TrendOfCounts(MoodCount(weekEntries(es, t), mood),
                  MoodCount(prevWeekEntries(es, t), mood))

Keywords(theme, keywords) == [theme |-> theme, keywords |-> keywords]

themeKeywords ==
    <<Keywords("Work", <<"work", "project", "meeting", "deadline",
                         "presentation", "team", "office", "job">>),
      Keywords("Family", <<"family", "mom", "dad", "parent", "child", "kid",
                           "sibling", "brother", "sister">>),
      Keywords("Friends", <<"friend", "conversation", "hang", "catch up",
                            "connected">>),
      Keywords("Health", <<"health", "exercise", "workout", "run", "walk",
                           "meditation", "yoga">>),
      Keywords("Mindfulness", <<"mindful", "meditation", "grateful", "reflect",
                                "peace", "calm", "present">>),
      Keywords("Nature", <<"park", "sunset", "outdoor", "walk", "nature",
                           "weather", "sky">>),
      Keywords("Productivity", <<"focus", "productive", "prioritize",
                                 "organize", "accomplish", "goals">>),
      Keywords("Growth", <<"learn", "growth", "improve", "better", "progress",
                           "develop", "patient">>),
      Keywords("Stress", <<"stress", "overwhelm", "anxious", "worried",
                           "pressure">>),
      Keywords("Books", <<"book", "read", "reading">>)>>

HasTheme(counts, theme) == \E i \in 1..Len(counts) : counts[i].name = theme

\* themeCounts[theme] = (themeCounts[theme] || 0) + 1; a new key comes last
Increment(counts, theme) ==
    IF HasTheme(counts, theme)
    THEN [i \in 1..Len(counts) |->
            IF counts[i].name = theme
            THEN [name |-> theme, count |-> counts[i].count + 1]
            ELSE counts[i]]
    ELSE Append(counts, [name |-> theme, count |-> 1])

\* keywords.forEach counting an entry once for a theme, however many of the
\* keywords it holds
RECURSIVE ForKeywordsOncePerEntry(_, _, _, _, _)
ForKeywordsOncePerEntry(counts, theme, keywords, k, contentLower) ==
    IF k > Len(keywords) THEN counts
    ELSE IF Contains(contentLower, keywords[k]) THEN Increment(counts, theme)
    ELSE ForKeywordsOncePerEntry(counts, theme, keywords, k + 1, contentLower)

\* keywords.forEach(keyword => ...), from the k-th keyword
RECURSIVE ForKeywords(_, _, _, _, _)
ForKeywords(counts, theme, keywords, k, contentLower) ==
    IF k > Len(keywords) THEN counts
    ELSE ForKeywords(IF Contains(contentLower, keywords[k])
                     THEN Increment(counts, theme) ELSE counts,
                     theme, keywords, k + 1, contentLower)

\* the element of a one-element set; the set is built before its element is
\* used, so a loop goes on from the counts as a value
The(S) == CHOOSE x \in S : TRUE

\* Object.entries(themeKeywords).forEach(...), from the j-th theme
RECURSIVE ForThemes(_, _, _)
ForThemes(counts, j, contentLower) ==
    IF j > Len(themeKeywords) THEN counts
    ELSE The({ForThemes(next, j + 1, contentLower) :
                next \in {ForKeywords(counts, themeKeywords[j].theme,
                                      themeKeywords[j].keywords, 1,
                                      contentLower)}})

\* entries.forEach(entry => ...), from the i-th entry
RECURSIVE ForEntries(_, _, _)
ForEntries(counts, es, i) ==
    IF i > Len(es) THEN counts
    ELSE The({ForEntries(next, es, i + 1) :
                next \in {ForThemes(counts, 1, contentLower) :
                            contentLower \in {ToLowerCase(es[i].content)}}})

\* .sort((a, b) => b[1] - a[1]): x goes behind the elements that count at
\* least as much, so equal counts keep their order
InsertByCount(sorted, x) ==
    SelectSeq(sorted, LAMBDA y : y.count >= x.count) \o <<x>> \o
    SelectSeq(sorted, LAMBDA y : y.count < x.count)

RECURSIVE SortByCount(_, _, _)
SortByCount(sorted, a, i) ==
    IF i > Len(a) THEN sorted
    ELSE SortByCount(InsertByCount(sorted, a[i]), a, i + 1)

\* .slice(0, 5)
TopThemes(counts) ==
    SubSeq(SortByCount(<<>>, counts, 1), 1,
           IF Len(counts) < 5 THEN Len(counts) ELSE 5)

\* entries.forEach(entry => { if (entry.mood) counts[entry.mood] = ... }),
\* from the i-th entry
RECURSIVE MoodCountsFrom(_, _, _)
MoodCountsFrom(counts, es, i) ==
    IF i > Len(es) THEN counts
    ELSE The({MoodCountsFrom(next, es, i + 1) :
                next \in {IF es[i].mood = "" THEN counts
                          ELSE Increment(counts, es[i].mood)}})

getMoodCounts(es) == MoodCountsFrom(<<>>, es, 1)

\* Object.entries(moodCounts).sort((a, b) => b[1] - a[1])[0]?.[0]
DominantOf(counts) ==
    IF counts = <<>> THEN Undefined
    ELSE Str(SortByCount(<<>>, counts, 1)[1].name)

\* the most occurrences of one mood in one window of a seeded collection
MaxCount == 9

\* the most entries of a collection seeded with contents
MaxEntries == 3

Entry(date, mood, content) == [date |-> date, mood |-> mood, content |-> content]

\* p entries of the mood in the previous window, c in the current one, from
\* the first hour of each window on; around them an entry too old for both
\* windows, entries of another mood and an entry without a mood
TrendEntries(t, mood, p, c) ==
    <<Entry(twoWeeksAgo(t) - 1, mood, ""), Entry(weekAgo(t) - 1, "sad", ""),
      Entry(t - 1, "sad", ""), Entry(t - 2, "", "")>> \o
    [i \in 1..p |-> Entry(twoWeeksAgo(t) + i - 1, mood, "")] \o
    [i \in 1..c |-> Entry(weekAgo(t) + i - 1, mood, "")]

Contents ==
    {"", "Meditation kept me calm.",
     "Workout, then reading a book",
     "Long WALK, then a walk in the park with a friend",
     "Stressed about the project deadline at work",
     "Family dinner: mom, dad and my sister"}

ThemeEntries(t, contents) ==
    [i \in 1..Len(contents) |-> Entry(t - i, "calm", contents[i])]

\* entries of the current window, of the previous one and without a mood
DatedMoods(t) ==
    {Entry(d, mood, "") : d \in {t - 1, weekAgo(t) - 1},
                          mood \in {"joy", "sad", ""}}

\* the most entries of a collection seeded with dates
MaxDated == 2

\* the instants around the edges of the two windows
WindowDates(t) ==
    {twoWeeksAgo(t) - 1, twoWeeksAgo(t), weekAgo(t) - 1, weekAgo(t),
     t - 1, t, t + 1}

DatedEntries(dates) == [i \in 1..Len(dates) |-> Entry(dates[i], "", "")]

InitInsights ==
    /\ pc = "idle"
    /\ op = "Insights"
    /\ apiKey = Undefined
    /\ text = ""
    /\ requests = 0
    /\ response = None
    /\ caught = <<>>
    /\ outcome = None
    /\ doc = <<>>
    /\ now = 0
    /\ trend = None
    /\ themeCounts = <<>>
    /\ themes = <<>>
    /\ windows = None
    /\ moodCounts = <<>>
    /\ dominantMood = None
    /\ \/ \E m \in {"calm", "joy"}, p \in 0..MaxCount, c \in 0..MaxCount :
             entries = TrendEntries(now, m, p, c)
       \/ \E n \in 0..MaxEntries : \E contents \in [1..n -> Contents] :
             entries = ThemeEntries(now, contents)
       \/ \E n \in 0..MaxDated : \E dates \in [1..n -> WindowDates(now)] :
             entries = DatedEntries(dates)
       \/ \E n \in 0..MaxEntries : \E es \in [1..n -> DatedMoods(now)] :
             entries = es

\* getMoodTrend(mood)
GetMoodTrend(mood) ==
    /\ pc = "idle"
    /\ op = "Insights"
    /\ op' = "getMoodTrend"
    /\ trend' = [mood |-> mood, result |-> getMoodTrend(entries, now, mood)]
    /\ pc' = "done"
    /\ UNCHANGED <<apiKey, text, requests, response, caught, outcome, doc,
                   entries, now, themeCounts, themes, windows, moodCounts,
                   dominantMood>>

\* extractThemes()
ExtractThemes ==
    /\ pc = "idle"
    /\ op = "Insights"
    /\ op' = "extractThemes"
    /\ \E counts \in {ForEntries(<<>>, entries, 1)} :
           /\ themeCounts' = counts
           /\ themes' = TopThemes(counts)
    /\ pc' = "done"
    /\ UNCHANGED <<apiKey, text, requests, response, caught, outcome, doc,
                   entries, now, trend, windows, moodCounts, dominantMood>>

\* const weekEntries = ...; const prevWeekEntries = ...
WeekEntries ==
    /\ pc = "idle"
    /\ op = "Insights"
    /\ op' = "weekEntries"
    /\ windows' = [current  |-> weekEntries(entries, now),
                   previous |-> prevWeekEntries(entries, now)]
    /\ pc' = "done"
    /\ UNCHANGED <<apiKey, text, requests, response, caught, outcome, doc,
                   entries, now, trend, themeCounts, themes, moodCounts,
                   dominantMood>>

\* const moodCounts = getMoodCounts(); const dominantMood = ...
GetMoodCounts ==
    /\ pc = "idle"
    /\ op = "Insights"
    /\ op' = "getMoodCounts"
    /\ \E counts \in {getMoodCounts(entries)} :
           /\ moodCounts' = counts
           /\ dominantMood' = DominantOf(counts)
    /\ pc' = "done"
    /\ UNCHANGED <<apiKey, text, requests, response, caught, outcome, doc,
                   entries, now, trend, themeCounts, themes, windows>>

NextInsights ==
    \/ \E mood \in Moods : GetMoodTrend(mood)
    \/ ExtractThemes
    \/ WeekEntries
    \/ GetMoodCounts

SpecInsights == InitInsights /\ [][NextInsights]_vars

----------------------------------------------------------------------------
(* The error taxonomy as a caller can tell the kinds apart *)

ErrorKind(e) ==
    CASE e.name = "OpenAIParseError"     -> "ParseError"
      [] e.name = "OpenAIRateLimitError" -> "RateLimitError"
      [] e.name = "OpenAINetworkError"   -> "NetworkError"
      [] e.name = "Error" /\ e.message = "OPENAI_API_KEY is required"
                                         -> "ConfigError"
      [] OTHER                           -> "UnknownProviderError"

NoCredential == apiKey \in {Undefined, Str("")}

\* C1: an adapter call with an empty or missing credential fails with the
\* configuration error, and no request has been issued at any point of it
C1_NoCredentialFailsBeforeRequest ==
    (op \in AdapterOps /\ NoCredential) =>
        /\ pc = "done"
        /\ outcome.kind = "thrown"
        /\ ErrorKind(outcome.err) = "ConfigError"
        /\ requests = 0
        /\ response = None

C1_Witness ==
    /\ op = "callOpenAIInsights"
    /\ apiKey = Str("")
    /\ pc = "done"
    /\ outcome.kind = "thrown"

\* C2: an adapter call with a non-empty credential has issued exactly one
\* request when it returns or fails, and never issues a second one
C2_ExactlyOneRequest ==
    /\ requests <= 1
    /\ (op \in AdapterOps /\ ~NoCredential) =>
           /\ requests = 1
           /\ pc = "done" => response # None /\ outcome # None

C2_Witness ==
    /\ op = "callOpenAIInsightsRaw"
    /\ pc = "done"
    /\ response.kind = "rejected"
    /\ response.err.status = <<429>>
    /\ requests = 1

\* C3: an error raised inside the generation call is classified in the fixed
\* order rate limit, network, parse, other; the first match wins and the
\* error always reaches the caller
C3_ClassificationOrder ==
    caught # <<>> =>
        /\ pc = "done"
        /\ outcome.kind = "thrown"
        /\ LET e == caught[1]
               y == outcome.err
           IN  IF e.status = <<429>> \/ e.code = "rate_limit_exceeded"
               THEN /\ ErrorKind(y) = "RateLimitError"
                    /\ y.status = <<429>>
               ELSE IF \/ e.name = "APIConnectionError"
                       \/ e.code \in {"ENOTFOUND", "ECONNREFUSED",
                                      "ECONNRESET", "ETIMEDOUT"}
               THEN /\ ErrorKind(y) = "NetworkError"
                    /\ y.status = e.status
               ELSE y = e

\* a rate-limited error that also looks like a connection error
C3_Witness ==
    /\ pc = "done"
    /\ response.kind = "rejected"
    /\ response.err.status = <<429>>
    /\ response.err.name = "APIConnectionError"
    /\ response.err.code = "ECONNRESET"
    /\ outcome.kind = "thrown"
    /\ outcome.err.name = "OpenAIRateLimitError"

EmptyOutputError ==
    OpenAIParseError("Empty OpenAI response text", "", "empty_output_text")

HasPayload(resp) == resp.output_parsed.t \in {"object", "array"}

HasText(resp) == resp.output_text.t = "string" /\ Trim(resp.output_text.s) # ""

\* C4: a response with neither a structured payload nor non-blank text fails
\* with the empty-output ParseError, unchanged by the classifier; a response
\* with a structured payload returns that payload, whatever its text is
C4_EmptyOutputAndPayload ==
    response.kind = "resolved" =>
        LET resp == response.resp
        IN  /\ (~HasPayload(resp) /\ ~HasText(resp)) =>
                   /\ outcome.kind = "thrown"
                   /\ outcome.err = EmptyOutputError
            /\ HasPayload(resp) =>
                   /\ outcome.kind = "returned"
                   /\ op = "callOpenAIInsightsRaw" =>
                          outcome.v.parsed = resp.output_parsed
                   /\ op = "callOpenAIInsights" =>
                          outcome.v.confidence =
                              IF Get(resp.output_parsed, "confidence").t = "number"
                              THEN Get(resp.output_parsed, "confidence")
                              ELSE Num(5, 1)

\* the payload is returned although the text holds another JSON object
C4_Witness ==
    /\ pc = "done"
    /\ op = "callOpenAIInsightsRaw"
    /\ response.kind = "resolved"
    /\ response.resp.output_parsed = FullPayload
    /\ response.resp.output_text =
           Str("Sure! {\"howYouFelt\": \"Tired\", \"confidence\": 0.4} Hope it helps.")
    /\ outcome.kind = "returned"
    /\ outcome.v.parsed = FullPayload

\* both the payload and the text are missing
C4_WitnessEmpty ==
    /\ pc = "done"
    /\ response.kind = "resolved"
    /\ response.resp.output_parsed = Null
    /\ response.resp.output_text = Str(" \n ")
    /\ outcome.kind = "thrown"

----------------------------------------------------------------------------
(* Properties of parseOpenAIInsights *)

Parsed == pc = "done" /\ op = "parseOpenAIInsights"

InUnitRange(c) == c.t = "number" /\ c.n >= 0 /\ c.n <= Pow10(c.d)

\* C5: after a successful parseOpenAIInsights the confidence is a number
\* within [0,1], and it is 0.5 when the parsed value has no numeric confidence
C5_ConfidenceInRange ==
    (Parsed /\ outcome.kind = "returned") =>
        /\ InUnitRange(outcome.v.confidence)
        /\ \A parsed \in {extractJson(text)} :
               Get(parsed.v, "confidence").t # "number" =>
                   outcome.v.confidence = Num(5, 1)

ListFields == {"moodDrivers", "patterns", "suggestions"}

\* the fields C6 speaks of, as they follow from a parsed value
ListsAndTextsAsOf(value, result) ==
    /\ \A f \in ListFields :
           result[f] = IF Get(value, f).t = "array" THEN Get(value, f)
                       ELSE Arr(<<>>)
    /\ Get(value, "howYouFelt").t = "undefined" => result.howYouFelt = Str("")
    /\ Get(value, "weeklySummary").t = "undefined" =>
           result.weeklySummary = Str("")

\* C6: for a text that parses to a JSON value the three lists of the result
\* are sequences, the parsed array when the field is an array and the empty
\* sequence otherwise, and an absent howYouFelt or weeklySummary is ''
C6_ListsAndTextsDefault ==
    /\ Parsed =>
           \A parsed \in {extractJson(text)} :
               parsed.ok =>
                   /\ outcome.kind = "returned"
                   /\ ListsAndTextsAsOf(parsed.v, outcome.v)
    /\ (Parsed /\ doc # <<>> /\ doc[1].value.t = "object") =>
           /\ outcome.kind = "returned"
           /\ ListsAndTextsAsOf(doc[1].value, outcome.v)

\* a list field that is present but not an array, and absent fields
C6_Witness ==
    /\ Parsed
    /\ doc # <<>>
    /\ doc[1].value = OffSchemaPayload
    /\ doc[1].wrapper = "fenced json"
    /\ outcome.kind = "returned"
    /\ outcome.v.moodDrivers = Arr(<<>>)
    /\ outcome.v.patterns = Arr(<<>>)
    /\ outcome.v.weeklySummary = Str("")

\* the result the round trip of r is expected to give: r, with the default
\* in every field r does not have
WithDefaults(r) ==
    [howYouFelt    |-> Get(r, "howYouFelt"),
     weeklySummary |-> IF Get(r, "weeklySummary").t = "undefined" THEN Str("")
                       ELSE Get(r, "weeklySummary"),
     moodDrivers   |-> IF Get(r, "moodDrivers").t = "undefined" THEN Arr(<<>>)
                       ELSE Get(r, "moodDrivers"),
     patterns      |-> IF Get(r, "patterns").t = "undefined" THEN Arr(<<>>)
                       ELSE Get(r, "patterns"),
     suggestions   |-> IF Get(r, "suggestions").t = "undefined" THEN Arr(<<>>)
                       ELSE Get(r, "suggestions"),
     confidence    |-> IF Get(r, "confidence").t = "undefined" THEN Num(5, 1)
                       ELSE Get(r, "confidence")]

\* the text was serialized from a valid InsightResult-shaped object
RoundTrip == /\ Parsed
             /\ doc # <<>>
             /\ doc[1].wrapper = "bare"
             /\ doc[1].value \in ValidInsights

\* C7 as stated: parse(serialize(r)) equals r for every valid r
C7_RoundTrip ==
    RoundTrip =>
        /\ outcome.kind = "returned"
        /\ outcome.v = WithDefaults(doc[1].value)

\* C7 as amended: parse(serialize(r)) equals r except that howYouFelt comes
\* back without its leading and trailing whitespace
C7_RoundTripUpToTrim ==
    RoundTrip =>
        /\ outcome.kind = "returned"
        /\ outcome.v = [WithDefaults(doc[1].value) EXCEPT
                           !.howYouFelt = Str(Trim(@.s))]
        /\ Trim(Get(doc[1].value, "howYouFelt").s) = Get(doc[1].value, "howYouFelt").s
               => outcome.v = WithDefaults(doc[1].value)

\* empty and zero values and absent fields come back as they were
C7_Witness ==
    /\ RoundTrip
    /\ doc[1].value = InsightObject(Str(""), Undefined, Arr(<<>>), Arr(<<>>),
                                    Undefined, Num(0, 0))
    /\ outcome.kind = "returned"
    /\ outcome.v.confidence = Num(0, 0)
    /\ outcome.v.howYouFelt = Str("")
    /\ outcome.v.suggestions = Arr(<<>>)

\* a howYouFelt with surrounding whitespace comes back trimmed
C7_WitnessTrimmed ==
    /\ RoundTrip
    /\ Get(doc[1].value, "howYouFelt") = Str(" Based on few entries \n")
    /\ outcome.kind = "returned"
    /\ outcome.v.howYouFelt = Str("Based on few entries")

NoBraceSpan(s) ==
    ~\E i, j \in 1..Len(s) : i < j /\ Ch(s, i) = "{" /\ Ch(s, j) = "}"

\* C8 as stated: every text without a brace-delimited substring raises a
\* ParseError carrying the text verbatim
C8_NoBracesThrows ==
    (Parsed /\ NoBraceSpan(text)) =>
        /\ outcome.kind = "thrown"
        /\ ErrorKind(outcome.err) = "ParseError"
        /\ outcome.err.rawText = <<text>>

\* C8 as amended: a text without a brace-delimited substring that is not
\* itself JSON once trimmed and unfenced raises the ParseError 'No JSON
\* found in response' with the text verbatim and the parser's message
C8_NoJsonThrows ==
    (Parsed /\ NoBraceSpan(text)) =>
        \A direct \in {JSONParse(CleanText(text))} :
            ~direct.ok =>
                /\ outcome.kind = "thrown"
                /\ ErrorKind(outcome.err) = "ParseError"
                /\ outcome.err.message = "No JSON found in response"
                /\ outcome.err.rawText = <<text>>
                /\ outcome.err.parseError = <<direct.message>>

\* prose with surrounding whitespace is reported as it was given
C8_Witness ==
    /\ Parsed
    /\ text = "  plain prose, no json\n"
    /\ outcome.kind = "thrown"
    /\ outcome.err.rawText = <<"  plain prose, no json\n">>
    /\ outcome.err.parseError = <<"Unexpected token p in JSON at position 0">>

----------------------------------------------------------------------------
(* Properties of the Insights component *)

\* the entries of a mood dated within [from, to)
CountWithin(mood, from, to) ==
    Cardinality({i \in 1..Len(entries) :
                    /\ entries[i].mood = mood
                    /\ entries[i].date >= from
                    /\ entries[i].date < to})

\* |a| / b * 100 rounded to the nearest integer, a half going up
RoundedPercent(a, b) ==
    (200 * (IF a < 0 THEN -a ELSE a) + b) \div (2 * b)

TrendAsSpecified(cur, prev) ==
    IF prev = 0 THEN trend.result.direction = "neutral"
    ELSE /\ trend.result.change = RoundedPercent(cur - prev, prev)
         /\ trend.result.direction =
                IF cur > prev THEN "up"
                ELSE IF cur < prev THEN "down" ELSE "neutral"

\* C9: with prev = 0 the trend is neutral; otherwise the change is
\* round(|cur - prev| / prev * 100), halves rounded up, and the direction is
\* up, down or neutral as the counts themselves compare
C9_TrendOfCounts ==
    (pc = "done" /\ op = "getMoodTrend") =>
        TrendAsSpecified(CountWithin(trend.mood, now - 7 * 24, now),
                         CountWithin(trend.mood, now - 14 * 24, now - 7 * 24))

\* the keywords of the j-th theme that occur in a lower-cased content
KeywordsFound(j, lower) ==
    {k \in 1..Len(themeKeywords[j].keywords) :
        \E at \in 1..Len(lower) :
            StartsWithAt(lower, at, themeKeywords[j].keywords[k])}

RECURSIVE KeywordsFoundUpTo(_, _, _)
KeywordsFoundUpTo(j, lowers, i) ==
    IF i = 0 THEN 0
    ELSE Cardinality(KeywordsFound(j, lowers[i])) +
         KeywordsFoundUpTo(j, lowers, i - 1)

CountedFor(counts, theme) ==
    IF \E i \in 1..Len(counts) : counts[i].name = theme
    THEN counts[CHOOSE i \in 1..Len(counts) : counts[i].name = theme].count
    ELSE 0

\* C10: the count of a theme is the number of its keywords found in the
\* lower-cased content of an entry, summed over the entries; a returned
\* theme carries that count
C10_CountPerKeyword ==
    (pc = "done" /\ op = "extractThemes") =>
        /\ \A lowers \in {[i \in 1..Len(entries) |->
                              ToLowerCase(entries[i].content)]} :
               \A j \in 1..Len(themeKeywords) :
                   CountedFor(themeCounts, themeKeywords[j].theme) =
                       KeywordsFoundUpTo(j, lowers, Len(entries))
        /\ \A i \in 1..Len(themes) :
               themes[i].count = CountedFor(themeCounts, themes[i].name)

\* one entry with 'meditation' and 'calm' adds 2 to Mindfulness and, for the
\* shared keyword 'meditation', 1 to Health
C10_Witness ==
    /\ pc = "done"
    /\ op = "extractThemes"
    /\ Len(entries) = 1
    /\ entries[1].content = "Meditation kept me calm."
    /\ themes = <<[name |-> "Mindfulness", count |-> 2],
                  [name |-> "Health", count |-> 1]>>

\* the themes counted before the j-th one when ordered by count descending
\* and, for equal counts, by their place in the dictionary
RankedBefore(j) ==
    {k \in 1..Len(themeKeywords) :
        \/ CountedFor(themeCounts, themeKeywords[k].theme) >
               CountedFor(themeCounts, themeKeywords[j].theme)
        \/ /\ CountedFor(themeCounts, themeKeywords[k].theme) =
                  CountedFor(themeCounts, themeKeywords[j].theme)
           /\ k < j}

Counted == {j \in 1..Len(themeKeywords) :
               CountedFor(themeCounts, themeKeywords[j].theme) >= 1}

\* C11: the result holds at most 5 themes, each counted at least once, by
\* count descending; of two themes with the same count the one declared
\* earlier in the dictionary comes first and wins the 5th place
C11_TiesByDeclarationOrder ==
    (pc = "done" /\ op = "extractThemes") =>
        /\ Len(themes) = IF Cardinality(Counted) < 5
                         THEN Cardinality(Counted) ELSE 5
        /\ \A j \in Counted :
               Cardinality(RankedBefore(j)) < 5 =>
                   themes[Cardinality(RankedBefore(j)) + 1] =
                       [name  |-> themeKeywords[j].theme,
                        count |-> CountedFor(themeCounts,
                                             themeKeywords[j].theme)]

\* an entry is among the entries of a window
InWindow(window, e) == \E k \in 1..Len(window) : window[k] = e

\* C12: an entry is in the current window iff now-7d <= date < now and in
\* the previous window iff now-14d <= date < now-7d; no entry is in both,
\* and an entry dated at or after now or before now-14d is in neither
C12_WindowsHalfOpen ==
    (pc = "done" /\ op = "weekEntries") =>
        \A i \in 1..Len(entries) :
            /\ InWindow(windows.current, entries[i]) <=>
                   (now - 7 * 24 <= entries[i].date /\ entries[i].date < now)
            /\ InWindow(windows.previous, entries[i]) <=>
                   (now - 14 * 24 <= entries[i].date
                        /\ entries[i].date < now - 7 * 24)
            /\ ~(InWindow(windows.current, entries[i])
                    /\ InWindow(windows.previous, entries[i]))

\* the entries with a mood that are dated within [now-7d, now)
CurrentWithMood ==
    {i \in 1..Len(entries) :
        /\ entries[i].mood # ""
        /\ now - 7 * 24 <= entries[i].date
        /\ entries[i].date < now}

CurrentCount(mood) ==
    Cardinality({i \in CurrentWithMood : entries[i].mood = mood})

\* the place of the first entry of the current window with the mood
FirstCurrent(mood) ==
    CHOOSE i \in CurrentWithMood :
        /\ entries[i].mood = mood
        /\ \A k \in CurrentWithMood : entries[k].mood = mood => i <= k

\* no other mood of the current window counts more, or as much from an
\* earlier entry
LeadsCurrent(mood) ==
    \A i \in CurrentWithMood :
        entries[i].mood # mood =>
            \/ CurrentCount(mood) > CurrentCount(entries[i].mood)
            \/ /\ CurrentCount(mood) = CurrentCount(entries[i].mood)
               /\ FirstCurrent(mood) < FirstCurrent(entries[i].mood)

\* C13: the counts per mood are those of the current window, and the
\* dominant mood is the mood counted most in it, the first one encountered
\* among equals; entries outside the window do not change it
C13_DominantOfCurrentWindow ==
    (pc = "done" /\ op = "getMoodCounts") =>
        /\ \A mood \in Moods :
               CountedFor(moodCounts, mood) = CurrentCount(mood)
        /\ IF CurrentWithMood = {} THEN dominantMood = Undefined
           ELSE \E i \in CurrentWithMood :
                    /\ LeadsCurrent(entries[i].mood)
                    /\ dominantMood = Str(entries[i].mood)

====
